---- MODULE Spec2Model ----
(***************************************************************************)
(* Model of the model-catalog handler of poe2openai                        *)
(* (src/src/handlers/models.rs): the process-wide API_MODELS_CACHE slot    *)
(* behind a tokio RwLock, the three listing paths of get_models, and the   *)
(* merge of the cached upstream list with models.yaml.                     *)
(***************************************************************************)
EXTENDS Integers, Naturals, Sequences, FiniteSets, TLC

\* ------------------------------------------------------------------ bounds
MaxApi == 2        \* longest upstream list fed to the merge
MaxCustom == 2     \* longest custom_models list fed to the merge
NumReq == 3        \* requests served concurrently by get_models
NumCallers == 2    \* callers of the admission gate
MaxElapsed == 300  \* milliseconds of process life the gate is followed for

\* ------------------------------------------------------------ Option<T>
None == <<>>
Some(x) == <<x>>
IsSome(o) == o # <<>>
Unwrap(o) == o[1]
UnwrapOr(o, d) == IF o # <<>> THEN o[1] ELSE d

\* ------------------------------------------------------------ strings
\* str::to_lowercase on the identifiers the model uses.
ToLower(s) ==
    CASE s = "A" -> "a"
      [] s = "B" -> "b"
      [] OTHER -> s

LowerIds == {"a", "b"}

\* HashMap::get
MapGet(m, k) == IF k \in DOMAIN m THEN Some(m[k]) ELSE None

\* ------------------------------------------------------------ records
ModelInfo(id, object, created, owned_by) ==
    [id |-> id, object |-> object, created |-> created, owned_by |-> owned_by]

\* The record the upstream reports for an id (fields differ per id so that a
\* copy of the wrong field is visible).
UpstreamRecord(raw_id) ==
    ModelInfo(raw_id, "bot", IF ToLower(raw_id) = "a" THEN 1 ELSE 2,
              IF ToLower(raw_id) = "a" THEN "openai" ELSE "anthropic")

\* ModelConfig of models.yaml: enable: Option<bool>, mapping: Option<String>
ModelConfigs == [enable : {None, Some(TRUE), Some(FALSE)}, mapping : {None, Some("B")}]

\* CustomModel: id, created: Option<i64>, owned_by: Option<String>
CustomModels ==
    { [id |-> i, created |-> None, owned_by |-> None] : i \in {"A", "b"} }
    \cup { [id |-> i, created |-> Some(5), owned_by |-> Some("me")] : i \in {"A", "b"} }

\* Utc::now().timestamp() as read while a custom entry is appended
Times == {100, 101}

\* config.models as written in models.yaml: keys in the operator's spelling
RawModelKeys == {"A", "b"}

RawModelMaps ==
    UNION { [D -> ModelConfigs] : D \in SUBSET RawModelKeys }

\* yaml_config_map: the keys of config.models lowercased
YamlConfigMap(models) ==
    [k \in {ToLower(r) : r \in DOMAIN models} |->
        models[CHOOSE r \in DOMAIN models : ToLower(r) = k]]

SeqsUpTo(S, n) == UNION { [1..k -> S] : k \in 0..n }

\* ------------------------------------------------------------ the merge
\* What the loop over the cached upstream list pushes for one record.
ApiEmitIgnoreEnable(api_model_ref, yaml_config_map) ==
    LET api_model_id_lower == ToLower(api_model_ref.id)
        found == MapGet(yaml_config_map, api_model_id_lower)
        final_id == IF IsSome(found) /\ IsSome(Unwrap(found).mapping)
                    THEN ToLower(Unwrap(Unwrap(found).mapping))
                    ELSE api_model_id_lower
    IN  << ModelInfo(final_id, api_model_ref.object, api_model_ref.created,
                     api_model_ref.owned_by) >>

ApiEmitKeepsOriginal(api_model_ref, yaml_config_map) ==
    LET api_model_id_lower == ToLower(api_model_ref.id)
        found == MapGet(yaml_config_map, api_model_id_lower)
        orig == ModelInfo(api_model_id_lower, api_model_ref.object,
                          api_model_ref.created, api_model_ref.owned_by)
    IN  IF IsSome(found)
        THEN IF UnwrapOr(Unwrap(found).enable, TRUE)
             THEN IF IsSome(Unwrap(found).mapping)
                  THEN << orig,
                          ModelInfo(ToLower(Unwrap(Unwrap(found).mapping)),
                                    api_model_ref.object, api_model_ref.created,
                                    api_model_ref.owned_by) >>
                  ELSE << orig >>
             ELSE << >>
        ELSE << orig >>

ApiEmit(api_model_ref, yaml_config_map) ==
    LET api_model_id_lower == ToLower(api_model_ref.id)
        found == MapGet(yaml_config_map, api_model_id_lower)
    IN  IF IsSome(found)
        THEN IF UnwrapOr(Unwrap(found).enable, TRUE)
             THEN LET final_id == IF IsSome(Unwrap(found).mapping)
                                  THEN ToLower(Unwrap(Unwrap(found).mapping))
                                  ELSE api_model_id_lower
                  IN  << ModelInfo(final_id, api_model_ref.object,
                                   api_model_ref.created, api_model_ref.owned_by) >>
             ELSE << >>
        ELSE << ModelInfo(api_model_id_lower, api_model_ref.object,
                          api_model_ref.created, api_model_ref.owned_by) >>

\* What the loop over custom_models pushes for one entry, given the records
\* pushed so far and the clock.
CustomEmitNoDupCheck(custom_model, yaml_config_map, processed, now) ==
    LET model_id == ToLower(custom_model.id)
        found == MapGet(yaml_config_map, model_id)
    IN  IF IsSome(found) /\ Unwrap(found).enable = Some(FALSE)
        THEN << >>
        ELSE << ModelInfo(model_id, "model",
                          UnwrapOr(custom_model.created, now),
                          UnwrapOr(custom_model.owned_by, "poe")) >>

CustomEmitIgnoreDisable(custom_model, yaml_config_map, processed, now) ==
    LET model_id == ToLower(custom_model.id)
    IN  IF \E j \in 1..Len(processed) : processed[j].id = model_id
        THEN << >>
        ELSE << ModelInfo(model_id, "model",
                          UnwrapOr(custom_model.created, now),
                          UnwrapOr(custom_model.owned_by, "poe")) >>

CustomEmit(custom_model, yaml_config_map, processed, now) ==
    LET model_id == ToLower(custom_model.id)
        found == MapGet(yaml_config_map, model_id)
    IN  IF \E j \in 1..Len(processed) : processed[j].id = model_id
        THEN << >>
        ELSE IF IsSome(found) /\ Unwrap(found).enable = Some(FALSE)
             THEN << >>
             ELSE << ModelInfo(model_id, "model",
                               UnwrapOr(custom_model.created, now),
                               UnwrapOr(custom_model.owned_by, "poe")) >>

\* The two loops of the merge run to the end (lines 188-261), as get_models
\* runs them on one snapshot.
RECURSIVE ApiLoop(_, _)
ApiLoop(api_models_data, yaml_config_map) ==
    IF api_models_data = << >>
    THEN << >>
    ELSE ApiEmit(Head(api_models_data), yaml_config_map)
         \o ApiLoop(Tail(api_models_data), yaml_config_map)

RECURSIVE CustomLoop(_, _, _, _)
CustomLoop(custom_list, yaml_config_map, processed, now) ==
    IF custom_list = << >>
    THEN processed
    ELSE CustomLoop(Tail(custom_list), yaml_config_map,
                    processed \o CustomEmit(Head(custom_list), yaml_config_map,
                                            processed, now),
                    now)

\* custom_models: Option<Vec<CustomModel>>; None and an empty list add nothing
CustomList(custom_models) == UnwrapOr(custom_models, << >>)

MergeModels(api_models_data, models, custom_models, now) ==
    CustomLoop(CustomList(custom_models), YamlConfigMap(models),
               ApiLoop(api_models_data, YamlConfigMap(models)), now)

\* ------------------------------------------------------------ state
VARIABLES
    mg_api,        \* api_models_data_arc: the snapshot being merged
    mg_models,     \* config.models
    mg_custom,     \* config.custom_models
    mg_out,        \* processed_models_enabled
    mg_origin,     \* history: for each record of mg_out, the entry it came from
    mg_pc,         \* "api" | "custom" | "done": the loop the merge is in
    mg_i           \* index of the next entry of the current loop

mvars == << mg_api, mg_models, mg_custom, mg_out, mg_origin, mg_pc, mg_i >>

VARIABLES
    API_MODELS_CACHE,     \* Option<Arc<Vec<ModelInfo>>>
    writer,               \* the request holding the write guard, 0 when free
    pc,                   \* where each request is in get_models
    path,                 \* req.uri().path() of each request
    route,                \* the branch of get_models the request took
    config,               \* the Config each request got from get_cached_config()
    api_models_data_arc,  \* the list each request holds (models_arc on /api/models)
    res,                  \* the response rendered for each request
    fetched,              \* history: calls of get_models_from_api by each request
    populated_at_start,   \* history: the slot was populated when the request arrived
                          \*          (kept for the routes that use the slot)
    saw_failure           \* history: the request was queued for the write lock
                          \*          when a population fetch failed

hvars == << API_MODELS_CACHE, writer, pc, path, route, config, api_models_data_arc,
            res, fetched, populated_at_start, saw_failure >>

VARIABLES
    clock,                \* Instant::now(), in milliseconds
    GLOBAL_RATE_LIMITER,  \* the Instant inside the mutex: last admission
    limiter_guard,        \* the caller holding the mutex, 0 when free
    interval,             \* RATE_LIMIT_MS of this process
    gate_pc,              \* where each caller is in rate_limit_middleware
    wake_at               \* when the caller's sleep ends

gvars == << clock, GLOBAL_RATE_LIMITER, limiter_guard, interval, gate_pc, wake_at >>

vars == << hvars, mvars, gvars >>

\* Snapshots the cache can hold: ids already lowercased by get_models_from_api
CachedLists == SeqsUpTo({UpstreamRecord(i) : i \in LowerIds}, MaxApi)

CustomOptions == {None} \cup {Some(c) : c \in SeqsUpTo(CustomModels, MaxCustom)}

MergeInit ==
    /\ mg_api \in CachedLists
    /\ mg_models \in RawModelMaps
    /\ mg_custom \in CustomOptions
    /\ mg_out = << >>
    /\ mg_origin = << >>
    /\ mg_pc = "api"
    /\ mg_i = 1

Origins(src, idx, emitted) == [j \in 1..Len(emitted) |-> [src |-> src, idx |-> idx]]

\* a variant of Push that puts the new records in front of the list
PushFront(list, emitted) == emitted \o list

\* processed_models_enabled.push(..): lines 204, 234 and 257
Push(list, emitted) == list \o emitted

\* one iteration of `for api_model_ref in api_models_data_arc.iter()`
MergeApiStep ==
    /\ mg_pc = "api"
    /\ UNCHANGED << hvars, gvars >>
    /\ mg_i <= Len(mg_api)
    /\ LET emitted == ApiEmit(mg_api[mg_i], YamlConfigMap(mg_models))
       IN  /\ mg_out' = Push(mg_out, emitted)
           /\ mg_origin' = Push(mg_origin, Origins("api", mg_i, emitted))
    /\ mg_i' = mg_i + 1
    /\ UNCHANGED << mg_api, mg_models, mg_custom, mg_pc >>

\* end of the upstream loop; `if let Some(custom_models)` / `!is_empty()`
MergeApiDone ==
    /\ mg_pc = "api"
    /\ UNCHANGED << hvars, gvars >>
    /\ mg_i > Len(mg_api)
    /\ mg_pc' = "custom"
    /\ mg_i' = 1
    /\ UNCHANGED << mg_api, mg_models, mg_custom, mg_out, mg_origin >>

\* one iteration of `for custom_model in custom_models`
MergeCustomStep ==
    /\ mg_pc = "custom"
    /\ UNCHANGED << hvars, gvars >>
    /\ mg_i <= Len(CustomList(mg_custom))
    /\ \E now \in Times :
         LET emitted == CustomEmit(CustomList(mg_custom)[mg_i],
                                   YamlConfigMap(mg_models), mg_out, now)
         IN  /\ mg_out' = Push(mg_out, emitted)
             /\ mg_origin' = Push(mg_origin, Origins("custom", mg_i, emitted))
    /\ mg_i' = mg_i + 1
    /\ UNCHANGED << mg_api, mg_models, mg_custom, mg_pc >>

\* the response is rendered from processed_models_enabled
MergeRender ==
    /\ mg_pc = "custom"
    /\ UNCHANGED << hvars, gvars >>
    /\ mg_i > Len(CustomList(mg_custom))
    /\ mg_pc' = "done"
    /\ UNCHANGED << mg_api, mg_models, mg_custom, mg_out, mg_origin, mg_i >>

MergeNext == MergeApiStep \/ MergeApiDone \/ MergeCustomStep \/ MergeRender

\* ====================================================================
\* get_models: the three listing paths and the cache slot
\* ====================================================================
Reqs == 1..NumReq

\* request paths routed to get_models (main.rs: "models", "api/models", "v1/models")
Paths == {"/api/models", "/v1/models"}

\* Config snapshots get_cached_config() can return
Config(enable, use_v1_api, api_token, models, custom_models) ==
    [enable |-> enable, use_v1_api |-> use_v1_api, api_token |-> api_token,
     models |-> models, custom_models |-> custom_models]

Configs ==
    { Config(Some(TRUE), None, None,
             ("A" :> [enable |-> None, mapping |-> Some("B")]),
             Some(<< [id |-> "A", created |-> Some(5), owned_by |-> Some("me")] >>)),
      Config(None, Some(TRUE), Some("token"),
             ("A" :> [enable |-> None, mapping |-> Some("B")]),
             Some(<< [id |-> "A", created |-> Some(5), owned_by |-> Some("me")] >>)) }

\* no Config held: before get_cached_config() and after the handler returned
NoConfig == Config(None, None, None, << >>, None)

\* What the Poe endpoint can answer to one listing call
RawLists == { << UpstreamRecord("A") >>, << UpstreamRecord("a"), UpstreamRecord("B") >> }

UpstreamAnswers == { [ok |-> TRUE, data |-> l] : l \in RawLists } \cup { [ok |-> FALSE] }

Ok(v) == [ok |-> TRUE, val |-> v]
Err(e) == [ok |-> FALSE, err |-> e]

LowercaseIds(list) ==
    [j \in 1..Len(list) |->
        ModelInfo(ToLower(list[j].id), list[j].object, list[j].created, list[j].owned_by)]

\* get_models_from_api: the Result it returns when the endpoint answers `answer`
GetModelsFromApi(cfg, answer) ==
    IF UnwrapOr(cfg.use_v1_api, FALSE)
    THEN IF IsSome(cfg.api_token)
         THEN IF answer.ok THEN Ok(LowercaseIds(answer.data)) ELSE Err("v1_failed")
         ELSE Err("no_api_token")
    ELSE IF answer.ok THEN Ok(LowercaseIds(answer.data)) ELSE Err("get_model_list_failed")

FetchResults(cfg) == { GetModelsFromApi(cfg, a) : a \in UpstreamAnswers }

ListResponse(data) == [status |-> 200, object |-> "list", data |-> data, error |-> None]
ErrorResponse(e) == [status |-> 500, object |-> "", data |-> << >>, error |-> Some(e)]

HandlerInit ==
    /\ API_MODELS_CACHE = None
    /\ writer = 0
    /\ pc = [p \in Reqs |-> "idle"]
    /\ path = [p \in Reqs |-> ""]
    /\ route = [p \in Reqs |-> ""]
    /\ config = [p \in Reqs |-> NoConfig]
    /\ api_models_data_arc = [p \in Reqs |-> None]
    /\ res = [p \in Reqs |-> None]
    /\ fetched = [p \in Reqs |-> 0]
    /\ populated_at_start = [p \in Reqs |-> FALSE]
    /\ saw_failure = [p \in Reqs |-> FALSE]

IsEnabled(c) == UnwrapOr(c.enable, FALSE)

\* a variant of ReceiveRequest in which a /api/models request takes the write
\* lock before it fetches
ReceiveRequestApiLocked(p) ==
    /\ pc[p] = "idle"
    /\ UNCHANGED << mvars, gvars >>
    /\ \E pa \in Paths, c \in Configs :
         /\ path' = [path EXCEPT ![p] = pa]
         /\ config' = [config EXCEPT ![p] = c]
         /\ IF pa = "/api/models"
            THEN /\ writer = 0
                 /\ writer' = p
                 /\ route' = [route EXCEPT ![p] = "api"]
                 /\ pc' = [pc EXCEPT ![p] = "api_fetch"]
                 /\ fetched' = [fetched EXCEPT ![p] = 1]
            ELSE IF IsEnabled(c)
                 THEN /\ route' = [route EXCEPT ![p] = "merge"]
                      /\ pc' = [pc EXCEPT ![p] = "read_wait"]
                      /\ UNCHANGED << fetched, writer >>
                 ELSE /\ route' = [route EXCEPT ![p] = "direct"]
                      /\ pc' = [pc EXCEPT ![p] = "direct_fetch"]
                      /\ fetched' = [fetched EXCEPT ![p] = 1]
                      /\ UNCHANGED writer
    /\ populated_at_start' =
         [populated_at_start EXCEPT ![p] = route'[p] # "direct" /\ IsSome(API_MODELS_CACHE)]
    /\ UNCHANGED << API_MODELS_CACHE, api_models_data_arc, res, saw_failure >>

\* lines 71-80, 118-135, 278-280: the request arrives, reads the config and
\* takes its path up to the first await on the lock or on the upstream
ReceiveRequest(p) ==
    /\ pc[p] = "idle"
    /\ UNCHANGED << mvars, gvars >>
    /\ \E pa \in Paths, c \in Configs :
         /\ path' = [path EXCEPT ![p] = pa]
         /\ config' = [config EXCEPT ![p] = c]
         /\ IF pa = "/api/models"
            THEN /\ route' = [route EXCEPT ![p] = "api"]
                 /\ pc' = [pc EXCEPT ![p] = "api_fetch"]
                 /\ fetched' = [fetched EXCEPT ![p] = 1]
            ELSE IF IsEnabled(c)
                 THEN /\ route' = [route EXCEPT ![p] = "merge"]
                      /\ pc' = [pc EXCEPT ![p] = "read_wait"]
                      /\ UNCHANGED fetched
                 ELSE /\ route' = [route EXCEPT ![p] = "direct"]
                      /\ pc' = [pc EXCEPT ![p] = "direct_fetch"]
                      /\ fetched' = [fetched EXCEPT ![p] = 1]
    /\ populated_at_start' =
         [populated_at_start EXCEPT ![p] = route'[p] # "direct" /\ IsSome(API_MODELS_CACHE)]
    /\ UNCHANGED << API_MODELS_CACHE, writer, api_models_data_arc, res,
                    saw_failure >>

\* line 81-83: get_models_from_api returned Ok(models) on /api/models
ApiFetchOk(p) ==
    /\ pc[p] = "api_fetch"
    /\ UNCHANGED << mvars, gvars >>
    /\ \E r \in FetchResults(config[p]) :
         /\ r.ok
         /\ api_models_data_arc' = [api_models_data_arc EXCEPT ![p] = Some(r.val)]
    /\ pc' = [pc EXCEPT ![p] = "api_write"]
    /\ UNCHANGED << API_MODELS_CACHE, writer, path, route, config, res, fetched,
                    populated_at_start, saw_failure >>

\* lines 104-113 with the cache cleared on failure
ApiFetchErrClears(p) ==
    /\ pc[p] = "api_fetch"
    /\ UNCHANGED << mvars, gvars >>
    /\ \E r \in FetchResults(config[p]) :
         /\ ~r.ok
         /\ res' = [res EXCEPT ![p] = Some(ErrorResponse(<< "api", r.err >>))]
    /\ pc' = [pc EXCEPT ![p] = "done"]
    /\ config' = [config EXCEPT ![p] = NoConfig]
    /\ writer = 0
    /\ API_MODELS_CACHE' = None
    /\ UNCHANGED << writer, path, route, api_models_data_arc,
                    fetched, populated_at_start, saw_failure >>

\* lines 104-113: get_models_from_api returned Err(e) on /api/models
ApiFetchErr(p) ==
    /\ pc[p] = "api_fetch"
    /\ UNCHANGED << mvars, gvars >>
    /\ \E r \in FetchResults(config[p]) :
         /\ ~r.ok
         /\ res' = [res EXCEPT ![p] = Some(ErrorResponse(<< "api", r.err >>))]
    /\ pc' = [pc EXCEPT ![p] = "done"]
    /\ config' = [config EXCEPT ![p] = NoConfig]
    /\ UNCHANGED << API_MODELS_CACHE, writer, path, route, api_models_data_arc,
                    fetched, populated_at_start, saw_failure >>

\* lines 85-102 installing only into an empty slot
ApiInstallIfEmpty(p) ==
    /\ pc[p] = "api_write"
    /\ UNCHANGED << mvars, gvars >>
    /\ writer = 0
    /\ API_MODELS_CACHE' = IF IsSome(API_MODELS_CACHE) THEN API_MODELS_CACHE
                           ELSE api_models_data_arc[p]
    /\ res' = [res EXCEPT ![p] = Some(ListResponse(Unwrap(api_models_data_arc[p])))]
    /\ pc' = [pc EXCEPT ![p] = "done"]
    /\ config' = [config EXCEPT ![p] = NoConfig]
    /\ UNCHANGED << writer, path, route, api_models_data_arc, fetched,
                    populated_at_start, saw_failure >>

\* lines 85-102 installing a list that lacks the first record of the response
ApiInstallTruncated(p) ==
    /\ pc[p] = "api_write"
    /\ UNCHANGED << mvars, gvars >>
    /\ writer = 0
    /\ API_MODELS_CACHE' = Some(Tail(Unwrap(api_models_data_arc[p])))
    /\ res' = [res EXCEPT ![p] = Some(ListResponse(Unwrap(api_models_data_arc[p])))]
    /\ pc' = [pc EXCEPT ![p] = "done"]
    /\ config' = [config EXCEPT ![p] = NoConfig]
    /\ UNCHANGED << writer, path, route, api_models_data_arc, fetched,
                    populated_at_start, saw_failure >>

\* lines 85-102: take the write lock, replace the slot, drop the lock, render
ApiInstall(p) ==
    /\ pc[p] = "api_write"
    /\ UNCHANGED << mvars, gvars >>
    /\ writer = 0
    /\ API_MODELS_CACHE' = api_models_data_arc[p]
    /\ res' = [res EXCEPT ![p] = Some(ListResponse(Unwrap(api_models_data_arc[p])))]
    /\ pc' = [pc EXCEPT ![p] = "done"]
    /\ config' = [config EXCEPT ![p] = NoConfig]
    /\ UNCHANGED << writer, path, route, api_models_data_arc, fetched,
                    populated_at_start, saw_failure >>

\* lines 135-140 with the hit taken for a miss: the request goes on to fetch
ReadHitRefetch(p) ==
    /\ pc[p] = "read_wait"
    /\ UNCHANGED << mvars, gvars >>
    /\ writer = 0
    /\ IsSome(API_MODELS_CACHE)
    /\ writer' = p
    /\ fetched' = [fetched EXCEPT ![p] = 1]
    /\ pc' = [pc EXCEPT ![p] = "miss_fetch"]
    /\ UNCHANGED << API_MODELS_CACHE, path, route, config, api_models_data_arc, res,
                    populated_at_start, saw_failure >>

\* lines 135-140: the read guard is granted (no writer), the slot is populated;
\* the guard is dropped before the next await
ReadHit(p) ==
    /\ pc[p] = "read_wait"
    /\ UNCHANGED << mvars, gvars >>
    /\ writer = 0
    /\ IsSome(API_MODELS_CACHE)
    /\ api_models_data_arc' = [api_models_data_arc EXCEPT ![p] = API_MODELS_CACHE]
    /\ pc' = [pc EXCEPT ![p] = "merge"]
    /\ UNCHANGED << API_MODELS_CACHE, writer, path, route, config, res, fetched,
                    populated_at_start, saw_failure >>

\* lines 135, 141-144: the read guard is granted (no writer), the slot is empty;
\* the guard is dropped before the write lock is asked for
ReadMiss(p) ==
    /\ pc[p] = "read_wait"
    /\ UNCHANGED << mvars, gvars >>
    /\ writer = 0
    /\ ~IsSome(API_MODELS_CACHE)
    /\ pc' = [pc EXCEPT ![p] = "write_wait"]
    /\ UNCHANGED << API_MODELS_CACHE, writer, path, route, config, api_models_data_arc, res,
                    fetched, populated_at_start, saw_failure >>

\* lines 146-150, 178: the write lock is granted and the slot was filled meanwhile
WriteRecheckHit(p) ==
    /\ pc[p] = "write_wait"
    /\ UNCHANGED << mvars, gvars >>
    /\ writer = 0
    /\ IsSome(API_MODELS_CACHE)
    /\ api_models_data_arc' = [api_models_data_arc EXCEPT ![p] = API_MODELS_CACHE]
    /\ pc' = [pc EXCEPT ![p] = "merge"]
    /\ UNCHANGED << API_MODELS_CACHE, writer, path, route, config, res, fetched,
                    populated_at_start, saw_failure >>

\* lines 146-154 without the re-check of line 148
WriteNoRecheck(p) ==
    /\ pc[p] = "write_wait"
    /\ UNCHANGED << mvars, gvars >>
    /\ writer = 0
    /\ writer' = p
    /\ fetched' = [fetched EXCEPT ![p] = 1]
    /\ pc' = [pc EXCEPT ![p] = "miss_fetch"]
    /\ UNCHANGED << API_MODELS_CACHE, path, route, config, api_models_data_arc, res,
                    populated_at_start, saw_failure >>

\* lines 146-154 where a request that queued behind a failed population
\* answers with that failure instead of fetching
WriteRecheckSharesError(p) ==
    /\ pc[p] = "write_wait"
    /\ UNCHANGED << mvars, gvars >>
    /\ writer = 0
    /\ ~IsSome(API_MODELS_CACHE)
    /\ IF saw_failure[p]
       THEN /\ res' = [res EXCEPT ![p] = Some(ErrorResponse(<< "populate", "shared" >>))]
            /\ pc' = [pc EXCEPT ![p] = "done"]
            /\ config' = [config EXCEPT ![p] = NoConfig]
            /\ UNCHANGED << writer, fetched >>
       ELSE /\ writer' = p
            /\ fetched' = [fetched EXCEPT ![p] = 1]
            /\ pc' = [pc EXCEPT ![p] = "miss_fetch"]
            /\ UNCHANGED << res, config >>
    /\ UNCHANGED << API_MODELS_CACHE, path, route, api_models_data_arc,
                    populated_at_start, saw_failure >>

\* lines 146-154 without the write guard: the fetch starts with the lock free
WriteRecheckMissNoLock(p) ==
    /\ pc[p] = "write_wait"
    /\ UNCHANGED << mvars, gvars >>
    /\ API_MODELS_CACHE = None
    /\ fetched' = [fetched EXCEPT ![p] = 1]
    /\ pc' = [pc EXCEPT ![p] = "miss_fetch"]
    /\ UNCHANGED << API_MODELS_CACHE, writer, path, route, config, api_models_data_arc,
                    res, populated_at_start, saw_failure >>

\* lines 146-154: the write lock is granted, the slot is still empty, and
\* get_models_from_api is called with the write guard held
WriteRecheckMiss(p) ==
    /\ pc[p] = "write_wait"
    /\ UNCHANGED << mvars, gvars >>
    /\ writer = 0
    /\ ~IsSome(API_MODELS_CACHE)
    /\ writer' = p
    /\ fetched' = [fetched EXCEPT ![p] = 1]
    /\ pc' = [pc EXCEPT ![p] = "miss_fetch"]
    /\ UNCHANGED << API_MODELS_CACHE, path, route, config, api_models_data_arc, res,
                    populated_at_start, saw_failure >>

\* lines 155-160, 178: the population fetch returned Ok(models)
PopulateOk(p) ==
    /\ pc[p] = "miss_fetch"
    /\ UNCHANGED << mvars, gvars >>
    /\ writer = p
    /\ \E r \in FetchResults(config[p]) :
         /\ r.ok
         /\ API_MODELS_CACHE' = Some(r.val)
         /\ api_models_data_arc' = [api_models_data_arc EXCEPT ![p] = Some(r.val)]
    /\ writer' = 0
    /\ pc' = [pc EXCEPT ![p] = "merge"]
    /\ UNCHANGED << path, route, config, res, fetched, populated_at_start,
                    saw_failure >>

\* lines 161-175: the population fetch returned Err(e)
PopulateErr(p) ==
    /\ pc[p] = "miss_fetch"
    /\ UNCHANGED << mvars, gvars >>
    /\ writer = p
    /\ \E r \in FetchResults(config[p]) :
         /\ ~r.ok
         /\ res' = [res EXCEPT ![p] = Some(ErrorResponse(<< "populate", r.err >>))]
    /\ saw_failure' = [q \in Reqs |-> saw_failure[q] \/ pc[q] = "write_wait"]
    /\ writer' = 0
    /\ pc' = [pc EXCEPT ![p] = "done"]
    /\ config' = [config EXCEPT ![p] = NoConfig]
    /\ UNCHANGED << API_MODELS_CACHE, path, route, api_models_data_arc,
                    fetched, populated_at_start >>

\* lines 181-276: merge the list held with models.yaml and render
MergeRespond(p) ==
    /\ pc[p] = "merge"
    /\ UNCHANGED << mvars, gvars >>
    /\ \E now \in Times :
         res' = [res EXCEPT ![p] =
                   Some(ListResponse(MergeModels(Unwrap(api_models_data_arc[p]),
                                                 config[p].models,
                                                 config[p].custom_models, now)))]
    /\ pc' = [pc EXCEPT ![p] = "done"]
    /\ config' = [config EXCEPT ![p] = NoConfig]
    /\ UNCHANGED << API_MODELS_CACHE, writer, path, route, api_models_data_arc,
                    fetched, populated_at_start, saw_failure >>

\* a variant of DirectFetchOk that also puts the fetched list in the slot
DirectFetchOkCaches(p) ==
    /\ pc[p] = "direct_fetch"
    /\ UNCHANGED << mvars, gvars >>
    /\ writer = 0
    /\ \E r \in FetchResults(config[p]) :
         /\ r.ok
         /\ res' = [res EXCEPT ![p] = Some(ListResponse(r.val))]
         /\ API_MODELS_CACHE' = Some(r.val)
    /\ pc' = [pc EXCEPT ![p] = "done"]
    /\ config' = [config EXCEPT ![p] = NoConfig]
    /\ UNCHANGED << writer, path, route, api_models_data_arc,
                    fetched, populated_at_start, saw_failure >>

\* lines 280-293: merging disabled, the upstream answered
DirectFetchOk(p) ==
    /\ pc[p] = "direct_fetch"
    /\ UNCHANGED << mvars, gvars >>
    /\ \E r \in FetchResults(config[p]) :
         /\ r.ok
         /\ res' = [res EXCEPT ![p] = Some(ListResponse(r.val))]
    /\ pc' = [pc EXCEPT ![p] = "done"]
    /\ config' = [config EXCEPT ![p] = NoConfig]
    /\ UNCHANGED << API_MODELS_CACHE, writer, path, route, api_models_data_arc,
                    fetched, populated_at_start, saw_failure >>

\* a variant of DirectFetchErr that hides the failure behind an empty list
DirectFetchErrSwallowed(p) ==
    /\ pc[p] = "direct_fetch"
    /\ UNCHANGED << mvars, gvars >>
    /\ \E r \in FetchResults(config[p]) :
         /\ ~r.ok
         /\ res' = [res EXCEPT ![p] = Some(ListResponse(<< >>))]
    /\ pc' = [pc EXCEPT ![p] = "done"]
    /\ config' = [config EXCEPT ![p] = NoConfig]
    /\ UNCHANGED << API_MODELS_CACHE, writer, path, route, api_models_data_arc,
                    fetched, populated_at_start, saw_failure >>

\* lines 294-305: merging disabled, the upstream failed
DirectFetchErr(p) ==
    /\ pc[p] = "direct_fetch"
    /\ UNCHANGED << mvars, gvars >>
    /\ \E r \in FetchResults(config[p]) :
         /\ ~r.ok
         /\ res' = [res EXCEPT ![p] = Some(ErrorResponse(<< "direct", r.err >>))]
    /\ pc' = [pc EXCEPT ![p] = "done"]
    /\ config' = [config EXCEPT ![p] = NoConfig]
    /\ UNCHANGED << API_MODELS_CACHE, writer, path, route, api_models_data_arc,
                    fetched, populated_at_start, saw_failure >>

\* ------------------------------------------------------------ admission gate
\* main.rs line 85: Duration::from_secs(60), in milliseconds
SafetyMarginMs == 60000
\* main.rs line 92: unwrap_or(100)
DefaultRateLimitMs == 100

Callers == 1..NumCallers

\* Instant::now() when main runs line 85
StartTime == SafetyMarginMs

\* values of RATE_LIMIT_MS (a u64): disabled, the default, the safety margin,
\* and one above the safety margin
MinIntervals == {0, DefaultRateLimitMs, SafetyMarginMs, SafetyMarginMs + DefaultRateLimitMs}

\* the clock moves between steps of the callers
ClockSteps == {10, 90}

\* main.rs lines 84-86: GLOBAL_RATE_LIMITER = Mutex::new(Instant::now() - 60 s)
GateStart ==
    /\ clock = StartTime
    /\ GLOBAL_RATE_LIMITER = StartTime - SafetyMarginMs
    /\ limiter_guard = 0
    /\ gate_pc = [c \in Callers |-> "idle"]
    /\ wake_at = [c \in Callers |-> 0]

\* main.rs lines 89-92: RATE_LIMIT_MS parsed as u64, 100 when unset
GateInit == GateStart /\ interval \in MinIntervals

GateIdle == GateStart /\ interval = DefaultRateLimitMs

ClockTick ==
    /\ UNCHANGED << hvars, mvars >>
    /\ \E d \in ClockSteps :
         /\ clock + d <= StartTime + MaxElapsed
         /\ clock' = clock + d
    /\ UNCHANGED << GLOBAL_RATE_LIMITER, limiter_guard, interval, gate_pc, wake_at >>

\* main.rs lines 129 and 145: a chat/completions request enters
\* rate_limit_middleware; with RATE_LIMIT_MS = 0 it is admitted at once
GateEnter(c) ==
    /\ gate_pc[c] = "idle"
    /\ UNCHANGED << hvars, mvars >>
    /\ gate_pc' = [gate_pc EXCEPT ![c] = IF interval = 0 THEN "admitted" ELSE "lock_wait"]
    /\ UNCHANGED << clock, GLOBAL_RATE_LIMITER, limiter_guard, interval, wake_at >>

\* a variant of GateAcquire that admits without looking at the elapsed time
GateAcquireNoDelay(c) ==
    /\ gate_pc[c] = "lock_wait"
    /\ UNCHANGED << hvars, mvars >>
    /\ limiter_guard = 0
    /\ GLOBAL_RATE_LIMITER' = clock
    /\ gate_pc' = [gate_pc EXCEPT ![c] = "admitted"]
    /\ UNCHANGED << clock, limiter_guard, interval, wake_at >>

\* the caller takes the mutex and compares the elapsed time with the
\* interval: admitted now, or asleep for the remaining difference while it
\* keeps the mutex
GateAcquire(c) ==
    /\ gate_pc[c] = "lock_wait"
    /\ UNCHANGED << hvars, mvars >>
    /\ limiter_guard = 0
    /\ LET elapsed == clock - GLOBAL_RATE_LIMITER
       IN  IF elapsed < interval
           THEN /\ limiter_guard' = c
                /\ wake_at' = [wake_at EXCEPT ![c] = clock + (interval - elapsed)]
                /\ gate_pc' = [gate_pc EXCEPT ![c] = "sleeping"]
                /\ UNCHANGED GLOBAL_RATE_LIMITER
           ELSE /\ GLOBAL_RATE_LIMITER' = clock
                /\ gate_pc' = [gate_pc EXCEPT ![c] = "admitted"]
                /\ UNCHANGED << limiter_guard, wake_at >>
    /\ UNCHANGED << clock, interval >>

\* the sleep is over: the timestamp is set to the admission time and the
\* mutex is released
GateWake(c) ==
    /\ gate_pc[c] = "sleeping"
    /\ UNCHANGED << hvars, mvars >>
    /\ limiter_guard = c
    /\ clock >= wake_at[c]
    /\ GLOBAL_RATE_LIMITER' = clock
    /\ limiter_guard' = 0
    /\ gate_pc' = [gate_pc EXCEPT ![c] = "admitted"]
    /\ wake_at' = [wake_at EXCEPT ![c] = 0]
    /\ UNCHANGED << clock, interval >>

\* the gated handler has run; the caller may come back with another request
GateLeave(c) ==
    /\ gate_pc[c] = "admitted"
    /\ UNCHANGED << hvars, mvars >>
    /\ gate_pc' = [gate_pc EXCEPT ![c] = "idle"]
    /\ UNCHANGED << clock, GLOBAL_RATE_LIMITER, limiter_guard, interval, wake_at >>

GateNext ==
    \/ ClockTick
    \/ \E c \in Callers :
         \/ GateEnter(c)
         \/ GateAcquire(c)
         \/ GateWake(c)
         \/ GateLeave(c)

Next ==
    \E p \in Reqs :
        \/ ReceiveRequest(p)
        \/ ApiFetchOk(p)
        \/ ApiFetchErr(p)
        \/ ApiInstall(p)
        \/ ReadHit(p)
        \/ ReadMiss(p)
        \/ WriteRecheckHit(p)
        \/ WriteRecheckMiss(p)
        \/ PopulateOk(p)
        \/ PopulateErr(p)
        \/ MergeRespond(p)
        \/ DirectFetchOk(p)
        \/ DirectFetchErr(p)

\* the merge machine at rest while the handler runs, and the reverse
MergeIdle ==
    /\ mg_api = << >>
    /\ mg_models = << >>
    /\ mg_custom = None
    /\ mg_out = << >>
    /\ mg_origin = << >>
    /\ mg_pc = "done"
    /\ mg_i = 1

Init == HandlerInit /\ MergeIdle /\ GateIdle
Spec == Init /\ [][Next]_vars

\* The steps get_models takes by itself are taken when they can be (the tokio
\* runtime polls a ready task, and its RwLock hands a released lock to a
\* waiter); nothing in get_models_from_api bounds the wait for the upstream's
\* answer (lines 34 and 50 await it without a timeout), so the steps that
\* deliver an answer carry no fairness.
HandlerFairness ==
    \A p \in Reqs :
        /\ WF_vars(ApiInstall(p))
        /\ WF_vars(ReadHit(p))
        /\ WF_vars(ReadMiss(p))
        /\ WF_vars(WriteRecheckHit(p))
        /\ WF_vars(WriteRecheckMiss(p))
        /\ WF_vars(MergeRespond(p))

SpecStall == Init /\ [][Next]_vars /\ HandlerFairness

InitMerge == MergeInit /\ HandlerInit /\ GateIdle
SpecMerge == InitMerge /\ [][MergeNext]_vars

InitGate == GateInit /\ HandlerInit /\ MergeIdle
SpecGate == InitGate /\ [][GateNext]_vars

\* ====================================================================
\* Properties of the cache slot and the three paths (checked under Spec)
\* ====================================================================
ResOk(p) == pc[p] = "done" /\ Unwrap(res[p]).status = 200
ResErr(p) == pc[p] = "done" /\ Unwrap(res[p]).status = 500
HoldsList(p) == IsSome(api_models_data_arc[p])
MergeReqs == { p \in Reqs : route[p] = "merge" }
\* merge-enabled requests that called get_models_from_api
MissFetchers == { p \in MergeReqs : fetched[p] = 1 }
\* requests that have written the slot
Writers ==
    { p \in Reqs : \/ route[p] = "api" /\ ResOk(p)
                   \/ route[p] = "merge" /\ fetched[p] = 1 /\ HoldsList(p) }
OnlyMergeRequests == \A p \in Reqs : route[p] \in {"", "merge"}
NoApiRequest == \A p \in Reqs : route[p] # "api"

\* C1: merge-enabled requests racing on the empty slot, with no /api/models
\* write and no failed population: get_models_from_api is called at most once,
\* exactly once as soon as one of them holds a list, and every list held is
\* the one the fetching request installed in the slot.
C1_SingleFetchOnMiss ==
    (NoApiRequest /\ ~(\E p \in MergeReqs : ResErr(p))) =>
        /\ Cardinality(MissFetchers) <= 1
        /\ \A p \in MergeReqs :
             HoldsList(p) =>
               /\ Cardinality(MissFetchers) = 1
               /\ \A f \in MissFetchers : api_models_data_arc[f] = api_models_data_arc[p]
               /\ API_MODELS_CACHE = api_models_data_arc[p]

C1_Witness ==
    /\ \A p \in Reqs : route[p] = "merge" /\ ResOk(p) /\ ~populated_at_start[p]
    /\ Cardinality(MissFetchers) = 1
    /\ \E p \in Reqs : HoldsList(p) /\ fetched[p] = 0

C3_FastPathNoFetch ==
    \A p \in MergeReqs :
        populated_at_start[p] =>
            /\ fetched[p] = 0
            /\ pc[p] \notin {"write_wait", "miss_fetch"}
            /\ \A q \in MergeReqs :
                 (populated_at_start[q] /\ HoldsList(p) /\ HoldsList(q)
                    /\ Cardinality(Writers) <= 1) =>
                      /\ api_models_data_arc[p] = api_models_data_arc[q]
                      /\ api_models_data_arc[p] = API_MODELS_CACHE

C3_Witness ==
    \E p, q \in MergeReqs :
        /\ p # q
        /\ populated_at_start[p] /\ populated_at_start[q]
        /\ ResOk(p) /\ ResOk(q)
        /\ fetched[p] = 0 /\ fetched[q] = 0
        /\ Cardinality({ r \in Reqs : fetched[r] = 1 }) = 1

\* C4: every /api/models request calls get_models_from_api exactly once, and
\* the step that answers 200 puts the fetched list in the slot, whatever the
\* slot held, and renders that same list unfiltered.
C4_NoCacheAlwaysFetchesAndInstalls ==
    [][ \A p \in Reqs :
          /\ route'[p] = "api" => fetched'[p] = 1
          /\ (route[p] = "api" /\ pc[p] # "done" /\ pc'[p] = "done"
                /\ Unwrap(res'[p]).status = 200) =>
               /\ HoldsList(p)
               /\ API_MODELS_CACHE' = api_models_data_arc[p]
               /\ Unwrap(res'[p]) = ListResponse(Unwrap(api_models_data_arc[p])) ]_vars

C4_Witness ==
    \E p, q \in Reqs :
        /\ route[p] = "api" /\ ResOk(p) /\ populated_at_start[p]
        /\ route[q] = "merge" /\ fetched[q] = 1 /\ HoldsList(q)
        /\ Unwrap(api_models_data_arc[q]) # Unwrap(res[p]).data
        /\ API_MODELS_CACHE = Some(Unwrap(res[p]).data)

\* C5: the step in which a /api/models request or a population answers 500
\* leaves the slot as it was.
C5_FailureLeavesSlot ==
    [][ \A p \in Reqs :
          (route[p] \in {"api", "merge"} /\ pc[p] # "done" /\ pc'[p] = "done"
             /\ Unwrap(res'[p]).status = 500) =>
                API_MODELS_CACHE' = API_MODELS_CACHE ]_vars

C5_Witness ==
    /\ API_MODELS_CACHE # None
    /\ \E p \in Reqs : route[p] = "api" /\ ResErr(p) /\ populated_at_start[p]
    /\ \E q \in Reqs : route[q] = "merge" /\ ResErr(q)

\* ====================================================================
\* Properties of the merge (checked under SpecMerge)
\* ====================================================================
MergeDone == mg_pc = "done"
yaml_config_map == YamlConfigMap(mg_models)
custom_list == CustomList(mg_custom)
\* positions of processed_models_enabled pushed for entry idx of loop src
OutFrom(src, idx) ==
    { j \in 1..Len(mg_out) : mg_origin[j] = [src |-> src, idx |-> idx] }
\* ids already pushed when custom entry k is looked at
IdsBeforeCustom(k) ==
    { mg_out[j].id : j \in { n \in 1..Len(mg_out) :
                               \/ mg_origin[n].src = "api"
                               \/ mg_origin[n].idx < k } }
DistinctIds(list) ==
    \A j, k \in 1..Len(list) : j # k => list[j].id # list[k].id

\* C6 as stated: the merged list never holds two records with the same id
\* (here for upstream lists whose own ids are distinct).
C6_MergeOutputIdsUnique ==
    (MergeDone /\ DistinctIds(mg_api)) => DistinctIds(mg_out)

\* C7: an upstream record whose override has enable == false is dropped; one
\* with no override, or with an override not disabled and without mapping, is
\* pushed once and unchanged; [a, b] with b disabled gives exactly [a].
C7_EnableDisable ==
    MergeDone =>
        /\ \A i \in 1..Len(mg_api) :
             LET ov == MapGet(yaml_config_map, mg_api[i].id)
             IN  /\ (IsSome(ov) /\ Unwrap(ov).enable = Some(FALSE)) =>
                        OutFrom("api", i) = {}
                 /\ (~IsSome(ov)
                       \/ (Unwrap(ov).enable # Some(FALSE) /\ ~IsSome(Unwrap(ov).mapping))) =>
                        \E j \in 1..Len(mg_out) :
                            /\ OutFrom("api", i) = {j}
                            /\ mg_out[j] = mg_api[i]
        /\ ( /\ mg_api = << UpstreamRecord("a"), UpstreamRecord("b") >>
             /\ mg_models = ("b" :> [enable |-> Some(FALSE), mapping |-> None])
             /\ custom_list = << >> )
           => mg_out = << UpstreamRecord("a") >>

C7_Witness ==
    /\ MergeDone
    /\ mg_api = << UpstreamRecord("a"), UpstreamRecord("b") >>
    /\ mg_models = ("b" :> [enable |-> Some(FALSE), mapping |-> None])
    /\ custom_list = << >>
    /\ mg_out = << UpstreamRecord("a") >>

\* C8: an upstream record whose override is not disabled and has a mapping is
\* pushed exactly once, with the lowercased mapping as id and the other three
\* fields as upstream; [a] with a -> "B" gives one record with id "b".
C8_Rename ==
    MergeDone =>
        /\ \A i \in 1..Len(mg_api) :
             LET ov == MapGet(yaml_config_map, mg_api[i].id)
             IN  (IsSome(ov) /\ Unwrap(ov).enable # Some(FALSE)
                    /\ IsSome(Unwrap(ov).mapping)) =>
                     \E j \in 1..Len(mg_out) :
                         /\ OutFrom("api", i) = {j}
                         /\ mg_out[j] =
                              [mg_api[i] EXCEPT !.id = ToLower(Unwrap(Unwrap(ov).mapping))]
        /\ ( /\ mg_api = << UpstreamRecord("a") >>
             /\ mg_models = ("A" :> [enable |-> Some(TRUE), mapping |-> Some("B")])
             /\ custom_list = << >> )
           => mg_out = << ModelInfo("b", "bot", 1, "openai") >>

C8_Witness ==
    /\ MergeDone
    /\ mg_api = << UpstreamRecord("a") >>
    /\ mg_models = ("A" :> [enable |-> Some(TRUE), mapping |-> Some("B")])
    /\ custom_list = << >>
    /\ mg_out = << ModelInfo("b", "bot", 1, "openai") >>

\* C9: a custom entry whose lowercased id is already among the records pushed
\* before it (upstream or earlier custom) pushes nothing; upstream [a] with
\* customs [A, b] gives the upstream a and the custom b.
C9_CustomSkipsDuplicates ==
    MergeDone =>
        /\ \A k \in 1..Len(custom_list) :
             (\E id \in IdsBeforeCustom(k) : ToLower(id) = ToLower(custom_list[k].id)) =>
                 OutFrom("custom", k) = {}
        /\ ( /\ mg_api = << UpstreamRecord("a") >>
             /\ mg_models = << >>
             /\ custom_list = << [id |-> "A", created |-> Some(5), owned_by |-> Some("me")],
                                 [id |-> "b", created |-> Some(5), owned_by |-> Some("me")] >> )
           => mg_out = << UpstreamRecord("a"), ModelInfo("b", "model", 5, "me") >>

C9_Witness ==
    /\ MergeDone
    /\ mg_api = << UpstreamRecord("a") >>
    /\ mg_models = << >>
    /\ custom_list = << [id |-> "A", created |-> Some(5), owned_by |-> Some("me")],
                        [id |-> "b", created |-> Some(5), owned_by |-> Some("me")] >>
    /\ mg_out = << UpstreamRecord("a"), ModelInfo("b", "model", 5, "me") >>

\* C10: a custom entry whose override has enable == Some(false) pushes
\* nothing; any other custom entry whose id is not yet pushed is pushed once
\* with object "model", its created or the clock, its owned_by or "poe".
C10_CustomDisabledOrAppended ==
    MergeDone =>
        \A k \in 1..Len(custom_list) :
            LET cm == custom_list[k]
                ov == MapGet(yaml_config_map, ToLower(cm.id))
            IN  IF IsSome(ov) /\ Unwrap(ov).enable = Some(FALSE)
                THEN OutFrom("custom", k) = {}
                ELSE ToLower(cm.id) \notin IdsBeforeCustom(k) =>
                       \E j \in 1..Len(mg_out) :
                           /\ OutFrom("custom", k) = {j}
                           /\ mg_out[j].id = ToLower(cm.id)
                           /\ mg_out[j].object = "model"
                           /\ IF IsSome(cm.created)
                              THEN mg_out[j].created = Unwrap(cm.created)
                              ELSE mg_out[j].created \in Times
                           /\ mg_out[j].owned_by =
                                IF IsSome(cm.owned_by) THEN Unwrap(cm.owned_by) ELSE "poe"

C10_Witness ==
    /\ MergeDone
    /\ mg_api = << >>
    /\ mg_models = ("b" :> [enable |-> Some(FALSE), mapping |-> None])
    /\ custom_list = << [id |-> "b", created |-> Some(5), owned_by |-> Some("me")],
                        [id |-> "A", created |-> None, owned_by |-> None] >>
    /\ mg_out = << ModelInfo("a", "model", 101, "poe") >>

\* C11: the merged list holds the surviving upstream records first, in upstream
\* order, and after them the appended custom entries, in configuration order:
\* of two records of the output the earlier one comes from an upstream record
\* and the later from a custom entry, or both come from the same list and the
\* earlier one from the earlier entry; every record carries the data of the
\* entry it comes from.
Precedes(o1, o2) ==
    \/ o1.src = "api" /\ o2.src = "custom"
    \/ o1.src = o2.src /\ o1.idx < o2.idx

C11_MergeOrdering ==
    MergeDone =>
        /\ Len(mg_origin) = Len(mg_out)
        /\ \A j, k \in 1..Len(mg_out) : j < k => Precedes(mg_origin[j], mg_origin[k])
        /\ \A j \in 1..Len(mg_out) :
             IF mg_origin[j].src = "api"
             THEN /\ mg_out[j].created = mg_api[mg_origin[j].idx].created
                  /\ mg_out[j].owned_by = mg_api[mg_origin[j].idx].owned_by
             ELSE mg_out[j].id = ToLower(custom_list[mg_origin[j].idx].id)

\* two different upstream records and a custom entry reach the output
C11_Witness ==
    /\ MergeDone
    /\ Len(mg_out) = 3
    /\ mg_origin[1].src = "api"
    /\ mg_origin[2].src = "api"
    /\ mg_origin[3].src = "custom"
    /\ mg_out[1].created # mg_out[2].created

\* C12: a stalled upstream call does not keep the exclusive lock for ever: a
\* request that fetches for an empty slot eventually gives the write guard up,
\* whether or not the upstream answers.
C12_StalledFetchReleasesLock ==
    \A p \in Reqs : (pc[p] = "miss_fetch") ~> (writer # p)

\* C13: on each of the three paths a request ends in one of two ways: a 200
\* list response built from one whole upstream snapshot (the snapshot itself
\* on /api/models and with the merge disabled, the merge of the snapshot the
\* request holds otherwise), or a 500 response that carries an error body and
\* no catalog. No response is an empty or partial catalog standing in for a
\* failed fetch.
WholeSnapshots == { LowercaseIds(l) : l \in RawLists }

C13_Outcome(p, r) ==
    \/ /\ r.status = 200
       /\ r.object = "list"
       /\ r.error = None
       /\ CASE route[p] = "api" ->
                 r.data \in WholeSnapshots /\ Some(r.data) = api_models_data_arc[p]
              [] route[p] = "direct" -> r.data \in WholeSnapshots
              [] OTHER ->
                 /\ HoldsList(p)
                 /\ Unwrap(api_models_data_arc[p]) \in WholeSnapshots
                 /\ \E now \in Times :
                      r.data = MergeModels(Unwrap(api_models_data_arc[p]),
                                           config[p].models, config[p].custom_models, now)
    \/ /\ r.status = 500
       /\ IsSome(r.error)
       /\ r.data = << >>
       /\ r.object # "list"

C13_TwoOutcomes ==
    [][\A p \in Reqs :
          (pc[p] # "done" /\ pc'[p] = "done") => C13_Outcome(p, Unwrap(res'[p]))]_vars

\* one request of each path has ended, with both kinds of outcome among them
C13_Witness ==
    \E p, q, r \in Reqs :
        /\ route[p] = "api" /\ ResOk(p)
        /\ route[q] = "merge" /\ ResErr(q)
        /\ route[r] = "direct" /\ ResErr(r)

C15_AdmissionSpacing ==
    [][\A c \in Callers :
          /\ (interval > 0 /\ gate_pc[c] # "admitted" /\ gate_pc'[c] = "admitted") =>
                /\ GLOBAL_RATE_LIMITER' = clock'
                /\ GLOBAL_RATE_LIMITER' - GLOBAL_RATE_LIMITER >= interval
          /\ (gate_pc[c] = "lock_wait" /\ gate_pc'[c] # "lock_wait"
                /\ clock - GLOBAL_RATE_LIMITER < interval) =>
                /\ gate_pc'[c] = "sleeping"
                /\ wake_at'[c] - clock >= interval - (clock - GLOBAL_RATE_LIMITER)
          /\ gate_pc'[c] \in {"idle", "lock_wait", "sleeping", "admitted"}]_vars

\* 10 ms after an admission, with the default 100 ms, a caller is asleep with
\* at least 90 ms to go while another caller waits for the gate
C15_Witness ==
    \E c, d \in Callers :
        /\ interval = DefaultRateLimitMs
        /\ GLOBAL_RATE_LIMITER >= StartTime
        /\ clock = GLOBAL_RATE_LIMITER + 10
        /\ gate_pc[c] = "sleeping"
        /\ wake_at[c] - clock >= 90
        /\ gate_pc[d] = "lock_wait"

\* C16: the first call after process start is never throttled, whatever the
\* configured interval: no caller is put to sleep while the shared timestamp
\* still holds the value it was given at start.
C16_FirstCallNeverThrottled ==
    \A c \in Callers :
        gate_pc[c] = "sleeping" => GLOBAL_RATE_LIMITER # StartTime - SafetyMarginMs

\* C17: with the merge disabled nothing is cached: no step of such a request
\* changes the slot or takes its lock, whether the fetch succeeds or fails;
\* the request never holds a list read from the slot, makes exactly one
\* upstream call of its own, and a 200 answer carries the upstream list as
\* fetched, with no override applied and no custom entry added.
C17_DirectPathUncached ==
    [][\A p \in Reqs :
          (route'[p] = "direct" /\ pc'[p] # pc[p]) =>
              /\ API_MODELS_CACHE' = API_MODELS_CACHE
              /\ writer' = writer
              /\ ~HoldsList(p)
              /\ api_models_data_arc'[p] = None
              /\ fetched'[p] = 1
              /\ pc'[p] = "done" =>
                   LET r == Unwrap(res'[p])
                   IN  \/ r.status = 200 /\ r.data \in WholeSnapshots
                       \/ r.status = 500 /\ IsSome(r.error)]_vars

\* two requests with the merge disabled have ended, one with each outcome,
\* and the slot holds the list of another request, not the list returned
C17_Witness ==
    \E p, q \in Reqs :
        /\ route[p] = "direct" /\ ResOk(p)
        /\ route[q] = "direct" /\ ResErr(q)
        /\ IsSome(API_MODELS_CACHE)
        /\ API_MODELS_CACHE # Some(Unwrap(res[p]).data)

\* C18: at most one request is inside the fetch made for an empty slot; it
\* holds the write guard for the whole fetch, the slot stays empty until it
\* installs, and nobody else holds the guard across a step.
C18_OneMissFetchInFlight ==
    /\ Cardinality({ p \in Reqs : pc[p] = "miss_fetch" }) <= 1
    /\ \A p \in Reqs :
         pc[p] = "miss_fetch" => (writer = p /\ API_MODELS_CACHE = None /\ fetched[p] = 1)
    /\ writer # 0 => pc[writer] = "miss_fetch"

\* one request fetches for the empty slot while two others wait for the lock
C18_Witness ==
    \E p, q, r \in Reqs :
        /\ q # r
        /\ pc[p] = "miss_fetch"
        /\ pc[q] = "write_wait"
        /\ pc[r] = "write_wait"

\* C19: once the slot is populated no step empties it (it keeps its list or
\* takes another one), and from then on no merge-enabled request starts an
\* upstream fetch.
C19_PopulatedStaysPopulated ==
    [][IsSome(API_MODELS_CACHE) =>
          /\ IsSome(API_MODELS_CACHE')
          /\ \A p \in Reqs : route'[p] = "merge" => fetched'[p] = fetched[p]]_vars

\* after the population a /api/models fetch has failed and a merge-enabled
\* request that had missed before the population has answered without a fetch
C19_Witness ==
    \E p, q \in Reqs :
        /\ IsSome(API_MODELS_CACHE)
        /\ route[p] = "api" /\ populated_at_start[p] /\ ResErr(p)
        /\ route[q] = "merge" /\ ~populated_at_start[q] /\ ResOk(q) /\ fetched[q] = 0

\* C20: a /api/models request never holds the lock across a step: it fetches
\* with the lock free and takes it only inside the step that installs. So a
\* merge-enabled request waiting to read a populated slot while a /api/models
\* fetch is in flight can take the shared lock, and one that holds the list
\* can answer; while a fetch for an empty slot is in flight a waiting reader
\* can not go on.
C20_NoCacheFetchHoldsNoLock ==
    /\ \A a \in Reqs : route[a] = "api" => writer # a
    /\ (\E a \in Reqs : pc[a] = "api_fetch") =>
         \A q \in Reqs :
             /\ (pc[q] = "read_wait" /\ IsSome(API_MODELS_CACHE)) => ENABLED ReadHit(q)
             /\ pc[q] = "merge" => ENABLED MergeRespond(q)
    /\ (\E p \in Reqs : pc[p] = "miss_fetch") =>
         \A q \in Reqs :
             pc[q] = "read_wait" => (~ENABLED ReadHit(q) /\ ~ENABLED ReadMiss(q))

\* an earlier /api/models request has populated the slot; while another
\* /api/models fetch is in flight a merge-enabled request that arrived to the
\* populated slot can take the shared lock
C20_Witness ==
    \E a, q, r \in Reqs :
        /\ pc[a] = "api_fetch"
        /\ IsSome(API_MODELS_CACHE)
        /\ route[q] = "merge" /\ populated_at_start[q] /\ pc[q] = "read_wait"
        /\ ENABLED ReadHit(q)
        /\ route[r] = "api" /\ ResOk(r)

====
